---- MODULE Spec2Model ----
(***************************************************************************)
(* Model of src/data_quality_validator.py: RuleResult, DataQualityRule,    *)
(* DataQualityValidator and the built-in rule helpers, together with the   *)
(* pandas operations those lines call.                                     *)
(*                                                                         *)
(* A DataFrame is a record [columns, rows]: the set of column labels and   *)
(* the sequence of rows (default RangeIndex), each row a function from the *)
(* labels to cell values.  A cell value is a record [t, n, s]: t is "null" *)
(* (None), "int" (payload n) or "str" (payload s, a sequence of one        *)
(* character strings).  A boolean Series is a record [isSeries, dtype,     *)
(* values] whose values are "True", "False" or "None".                     *)
(***************************************************************************)
EXTENDS Integers, Sequences, FiniteSets, TLC

VARIABLES lists, vlist, df, rule, op, outcome

vars == <<lists, vlist, df, rule, op, outcome>>

(***************************************************************************)
(* Bounds of the model.                                                    *)
(***************************************************************************)
\* longest single-column table drawn as an input
MaxRows == 3
\* longest two-column table drawn as an input
MaxWideRows == 2
\* most rules held by all rule lists together
MaxRules == 2

(***************************************************************************)
(* Cell values and text.                                                   *)
(***************************************************************************)
NullV == [t |-> "null", n |-> 0, s |-> <<>>]
IntV(i) == [t |-> "int", n |-> i, s |-> <<>>]
StrV(chars) == [t |-> "str", n |-> 0, s |-> chars]

Digits == <<"0", "1", "2", "3", "4", "5", "6", "7", "8", "9">>

RECURSIVE NatToText(_)
NatToText(i) ==
    IF i < 10 THEN <<Digits[i + 1]>>
    ELSE NatToText(i \div 10) \o <<Digits[(i % 10) + 1]>>

\* str(x) of a Python int
IntToText(i) == IF i < 0 THEN <<"-">> \o NatToText(0 - i) ELSE NatToText(i)

\* Series.astype(str) on an object column: str() of every cell, None included
PyStr(v) ==
    CASE v.t = "null" -> <<"N", "o", "n", "e">>
      [] v.t = "int" -> IntToText(v.n)
      [] OTHER -> v.s

AsTypeStr(col) == [i \in 1..Len(col) |-> StrV(PyStr(col[i]))]

(***************************************************************************)
(* Exceptions and Series.                                                  *)
(***************************************************************************)
NoName == [factory |-> "", cols |-> <<>>, args |-> <<>>]

\* an exception object: its class, the rule name it carries (NoName when it
\* carries none) and what its message tells
Exc(type, name, detail) == [type |-> type, name |-> name, detail |-> detail]
NoExc == Exc("", NoName, "")

Bool(b) == IF b THEN "True" ELSE "False"

BoolSeries(vals) == [isSeries |-> TRUE, dtype |-> "bool", values |-> vals]
NoSeries == [isSeries |-> FALSE, dtype |-> "", values |-> <<>>]

\* what a predicate call produces: a returned object or a raised exception
Returned(obj) == [raised |-> FALSE, exc |-> NoExc, obj |-> obj]
Raised(e) == [raised |-> TRUE, exc |-> e, obj |-> NoSeries]

(***************************************************************************)
(* pandas operations used by the rule helpers.                             *)
(***************************************************************************)
nrows(t) == Len(t.rows)

\* df[column] raises KeyError when the label is absent
HasColumn(t, c) == c \in t.columns
Column(t, c) == [i \in 1..nrows(t) |-> t.rows[i][c]]

\* Series.duplicated(keep=False): every member of a group of equal values
duplicated_first(col) ==
    [i \in 1..Len(col) |-> \E j \in 1..(i - 1) : col[j] = col[i]]
duplicated(col) ==
    [i \in 1..Len(col) |-> \E j \in 1..Len(col) : j # i /\ col[j] = col[i]]

\* an ordering comparison of an object column with a number raises TypeError
\* on a str cell; a null cell compares False
CompareRaises(col) == \E i \in 1..Len(col) : col[i].t = "str"
Ge(v, x) == v.t = "int" /\ v.n >= x
Le(v, x) == v.t = "int" /\ v.n <= x
Gt(v, x) == v.t = "int" /\ v.n > x
Lt(v, x) == v.t = "int" /\ v.n < x

\* re.match(pattern, text): the pattern is matched at the start of the text.
\* A pattern is a sequence of tokens: a literal character, "." (any
\* character) or, as last token, "$" (end of text).
RECURSIVE MatchAt(_, _, _, _)
MatchAt(pat, text, p, k) ==
    IF p > Len(pat) THEN TRUE
    ELSE IF pat[p] = "$" THEN k > Len(text) /\ MatchAt(pat, text, p + 1, k)
    ELSE /\ k <= Len(text)
         /\ (pat[p] = "." \/ pat[p] = text[k])
         /\ MatchAt(pat, text, p + 1, k + 1)

re_match(pat, text) == MatchAt(pat, text, 1, 1)

\* Series.str.match(pattern, na=False): na replaces the result on missing
\* cells only; a str cell is matched
str_match(col, pat) ==
    [i \in 1..Len(col) |->
        IF col[i].t = "str" THEN re_match(pat, col[i].s) ELSE FALSE]

(***************************************************************************)
(* RuleResult and DataQualityRule.                                         *)
(***************************************************************************)
RuleResult(name, passed, failures, total, details) ==
    [name |-> name, passed |-> passed, failures |-> failures,
     total |-> total, details |-> details]
NoResult == RuleResult(NoName, FALSE, 0, 0, <<>>)

to_dict(r) ==
    [name |-> r.name, passed |-> r.passed, failures |-> r.failures,
     total |-> r.total]

\* the closure held in DataQualityRule.func: which helper made it and the
\* parameters it captured; kind "const" is a caller-written predicate that
\* returns the object ret whatever the table
Func(kind, columns, lo, hi, inclusive, pattern, ret) ==
    [kind |-> kind, columns |-> columns, lo |-> lo, hi |-> hi,
     inclusive |-> inclusive, pattern |-> pattern, ret |-> ret]

DataQualityRule(name, func) == [name |-> name, func |-> func]

Name(factory, cols, args) == [factory |-> factory, cols |-> cols, args |-> args]

not_null(columns) ==
    DataQualityRule(Name("not_null", columns, <<>>),
                    Func("not_null", columns, 0, 0, TRUE, <<>>, NoSeries))

in_range(column, min_value, max_value, inclusive) ==
    DataQualityRule(Name("in_range", <<column>>, <<min_value, max_value>>),
                    Func("in_range", <<column>>, min_value, max_value,
                         inclusive, <<>>, NoSeries))

unique(column) ==
    DataQualityRule(Name("unique", <<column>>, <<>>),
                    Func("unique", <<column>>, 0, 0, TRUE, <<>>, NoSeries))

matches_regex(column, pattern) ==
    DataQualityRule(Name("matches_regex", <<column>>, <<>>),
                    Func("matches_regex", <<column>>, 0, 0, TRUE, pattern,
                         NoSeries))

const_rule(label, ret) ==
    DataQualityRule(Name(label, <<>>, <<>>),
                    Func("const", <<>>, 0, 0, TRUE, <<>>, ret))

KeyError == Exc("KeyError", NoName, "column not in table")
TypeError == Exc("TypeError", NoName, "comparison of str with number")

\* not_null._rule: df[columns].notnull().all(axis=1)
not_null_rule(f, t) ==
    IF \E k \in 1..Len(f.columns) : ~HasColumn(t, f.columns[k])
    THEN Raised(KeyError)
    ELSE Returned(BoolSeries(
            [i \in 1..nrows(t) |->
                Bool(\A k \in 1..Len(f.columns) :
                        t.rows[i][f.columns[k]].t # "null")]))

\* in_range._rule: between(min, max, inclusive="both"), or (> min) & (< max)
in_range_rule(f, t) ==
    IF ~HasColumn(t, f.columns[1]) THEN Raised(KeyError)
    ELSE LET col == Column(t, f.columns[1]) IN
         IF CompareRaises(col) THEN Raised(TypeError)
         ELSE IF f.inclusive
              THEN Returned(BoolSeries(
                      [i \in 1..Len(col) |->
                          Bool(Ge(col[i], f.lo) /\ Le(col[i], f.hi))]))
              ELSE Returned(BoolSeries(
                      [i \in 1..Len(col) |->
                          Bool(Gt(col[i], f.lo) /\ Lt(col[i], f.hi))]))

\* unique._rule: ~df[column].duplicated(keep=False)
unique_rule(f, t) ==
    IF ~HasColumn(t, f.columns[1]) THEN Raised(KeyError)
    ELSE LET dup == duplicated(Column(t, f.columns[1])) IN
         Returned(BoolSeries([i \in 1..Len(dup) |-> Bool(~dup[i])]))

\* matches_regex._rule: df[column].astype(str).str.match(pattern, na=False)
matches_regex_rule(f, t) ==
    IF ~HasColumn(t, f.columns[1]) THEN Raised(KeyError)
    ELSE LET m == str_match(AsTypeStr(Column(t, f.columns[1])), f.pattern) IN
         Returned(BoolSeries([i \in 1..Len(m) |-> Bool(m[i])]))

\* self.func(df)
Call(f, t) ==
    CASE f.kind = "not_null" -> not_null_rule(f, t)
      [] f.kind = "in_range" -> in_range_rule(f, t)
      [] f.kind = "unique" -> unique_rule(f, t)
      [] f.kind = "matches_regex" -> matches_regex_rule(f, t)
      [] OTHER -> Returned(f.ret)

\* ~mask on a bool Series
Invert(vals) == [i \in 1..Len(vals) |-> Bool(vals[i] = "False")]

\* int(Series.sum()) of a bool Series
RECURSIVE CountTrue(_)
CountTrue(vals) ==
    IF vals = <<>> THEN 0
    ELSE (IF Head(vals) = "True" THEN 1 ELSE 0) + CountTrue(Tail(vals))

\* df.loc[mask] with a bool Series on a RangeIndex: the mask is aligned to
\* the frame's index; a frame label the mask lacks raises IndexingError
LocRaises(t, vals) == Len(vals) < nrows(t)

RECURSIVE LocRows(_, _, _)
LocRows(t, vals, i) ==
    IF i > nrows(t) THEN <<>>
    ELSE (IF vals[i] = "True" THEN <<t.rows[i]>> ELSE <<>>)
         \o LocRows(t, vals, i + 1)

ValueError ==
    Exc("ValueError", NoName, "Rule function must return a boolean pandas Series")
IndexingError ==
    Exc("IndexingError", NoName, "Unalignable boolean Series provided as indexer")

EvalReturn(r) == [raised |-> FALSE, exc |-> NoExc, result |-> r]
EvalRaise(e) == [raised |-> TRUE, exc |-> e, result |-> NoResult]

passed_inverted(failures) == failures # 0
passed_of(failures) == failures = 0

\* DataQualityRule.evaluate
evaluate(r, t) ==
    LET call == Call(r.func, t) IN
    IF call.raised THEN EvalRaise(call.exc)
    ELSE LET mask == call.obj IN
         IF ~mask.isSeries \/ mask.dtype # "bool" THEN EvalRaise(ValueError)
         ELSE LET total == nrows(t)
                  failures_mask == Invert(mask.values)
                  failures == CountTrue(failures_mask)
              IN IF LocRaises(t, failures_mask) THEN EvalRaise(IndexingError)
                 ELSE EvalReturn(RuleResult(r.name, passed_of(failures),
                                            failures, total,
                                            LocRows(t, failures_mask, 1)))

(***************************************************************************)
(* DataQualityValidator.                                                   *)
(***************************************************************************)
NoReport == [columns |-> <<"-">>, rows |-> <<>>]

ValidateReturn(results, n) ==
    [raised |-> FALSE, exc |-> NoExc, results |-> results, evaluated |-> n,
     report |-> NoReport]
ValidateRaise(e, n) ==
    [raised |-> TRUE, exc |-> e, results |-> <<>>, evaluated |-> n,
     report |-> NoReport]

\* results.append(result)
prepend_result(results, result) == <<result>> \o results
append_result(results, result) == Append(results, result)

\* the loop of validate from its i-th iteration on; the last field of the
\* value counts the calls of rule.evaluate made
RECURSIVE validate_from(_, _, _, _)
validate_from(rules, t, i, results) ==
    IF i > Len(rules) THEN ValidateReturn(results, Len(rules))
    ELSE LET e == evaluate(rules[i], t) IN
         IF e.raised THEN ValidateRaise(e.exc, i)
         ELSE validate_from(rules, t, i + 1, append_result(results, e.result))

validate(rules, t) == validate_from(rules, t, 1, <<>>)

\* pd.DataFrame([r.to_dict() for r in results]): the columns are the keys
\* of the dicts, so a frame made from no dict has no column
summary(results) ==
    [columns |-> IF results = <<>> THEN <<>>
                 ELSE <<"name", "passed", "failures", "total">>,
     rows |-> [i \in 1..Len(results) |-> to_dict(results[i])]]

(***************************************************************************)
(* Inputs: the tables and rules the calls are made with.                   *)
(***************************************************************************)
IdValues == {NullV, IntV(1), IntV(2), IntV(3), StrV(<<"a">>)}
EmailValues == {NullV, StrV(<<"a">>)}

RowsOver(cols) ==
    {r \in [cols -> IdValues \cup EmailValues] :
        \A c \in cols : r[c] \in (IF c = "id" THEN IdValues ELSE EmailValues)}

SeqsUpTo(S, n) == UNION {[1..k -> S] : k \in 0..n}

TablesOver(cols, n) ==
    {[columns |-> cols, rows |-> rs] : rs \in SeqsUpTo(RowsOver(cols), n)}

\* the customer_id column of the sample data
IdsExample ==
    [columns |-> {"id"},
     rows |-> [i \in 1..4 |-> [c \in {"id"} |-> IntV(<<1, 2, 2, 4>>[i])]]]

Tables ==
    TablesOver({"id"}, MaxRows) \cup TablesOver({"id", "email"}, MaxWideRows)
        \cup TablesOver({"email"}, MaxWideRows) \cup {IdsExample}

Patterns == {<<"a">>, <<".">>, <<"N", "o", "n", "e", "$">>, <<"1", "$">>}

\* caller-written predicates: a mask of the right length for no table, for
\* one-row tables, for two-row tables; a mask holding None; a Python list
ConstRules ==
    {const_rule("empty", BoolSeries(<<>>)),
     const_rule("one", BoolSeries(<<"False">>)),
     const_rule("two", BoolSeries(<<"True", "False">>)),
     const_rule("nullable",
                [isSeries |-> TRUE, dtype |-> "object",
                 values |-> <<"True", "None">>]),
     const_rule("list",
                [isSeries |-> FALSE, dtype |-> "",
                 values |-> <<"True", "False">>])}

BuiltinRules ==
    {not_null(<<"id">>), not_null(<<"id", "email">>), unique("id")}
        \cup {in_range("id", b[1], b[2], inc) :
                b \in {<<1, 3>>, <<2, 2>>}, inc \in BOOLEAN}
        \cup {matches_regex("id", p) : p \in Patterns}

Rules == BuiltinRules \cup ConstRules

\* the rules and tables the validator calls are made with
ValidatorRules ==
    {not_null(<<"id", "email">>), unique("id"), in_range("id", 1, 3, TRUE),
     in_range("id", 1, 3, FALSE), matches_regex("id", <<".">>),
     const_rule("empty", BoolSeries(<<>>)),
     const_rule("one", BoolSeries(<<"False">>))}

ValidatorTables ==
    {t \in Tables :
        /\ "id" \in t.columns
        /\ nrows(t) <= 1
        /\ nrows(t) = 1 =>
              \/ t.columns = {"id"} /\ t.rows[1]["id"] \in {IntV(1), StrV(<<"a">>)}
              \/ t.columns # {"id"} /\ t.rows[1]["id"] = IntV(1)}

Validators == {"v1", "v2"}

(***************************************************************************)
(* State.  lists is the heap of Python list objects (a list's identity is  *)
(* its position); vlist[v] is the list self.rules of validator v refers    *)
(* to, 0 before v is constructed.  op, rule, df and outcome describe the   *)
(* last call: the method, its arguments and what it returned or raised.    *)
(***************************************************************************)
NoTable == [columns |-> {}, rows |-> <<>>]
NoRule == const_rule("", NoSeries)
NoOutcome == ValidateReturn(<<>>, 0)

Op(name, v, arg) == [name |-> name, v |-> v, arg |-> arg]

RulesOf(v) == lists[vlist[v]]

RECURSIVE TotalRules(_)
TotalRules(ls) == IF ls = <<>> THEN 0 ELSE Len(Head(ls)) + TotalRules(Tail(ls))

\* the heap holds at most one list per validator
ListsFull == Len(lists) >= Cardinality(Validators)

Init ==
    /\ lists = <<>>
    /\ vlist = [v \in Validators |-> 0]
    /\ df = NoTable
    /\ rule = NoRule
    /\ op = Op("init", "", 0)
    /\ outcome = NoOutcome

\* the caller builds a list of rules to hand to constructors
NewList(rs) ==
    /\ ~ListsFull
    /\ TotalRules(lists) + Len(rs) <= MaxRules
    /\ lists' = Append(lists, rs)
    /\ op' = Op("list", "", Len(lists) + 1)
    /\ rule' = NoRule
    /\ df' = NoTable
    /\ outcome' = NoOutcome
    /\ UNCHANGED vlist

\* DataQualityValidator(rules): self.rules = rules or []; arg is the list
\* passed, 0 for None.  A falsy argument (None, an empty list) makes a new
\* list; any other list is stored itself.
Construct(v, arg) ==
    /\ vlist[v] = 0
    /\ IF arg = 0 \/ lists[arg] = <<>>
       THEN /\ ~ListsFull
            /\ lists' = Append(lists, <<>>)
            /\ vlist' = [vlist EXCEPT ![v] = Len(lists) + 1]
       ELSE /\ vlist' = [vlist EXCEPT ![v] = arg]
            /\ UNCHANGED lists
    /\ op' = Op("init_validator", v, arg)
    /\ rule' = NoRule
    /\ df' = NoTable
    /\ outcome' = NoOutcome

\* v.add_rule(r)
AddRule(v, r) ==
    /\ vlist[v] # 0
    /\ TotalRules(lists) < MaxRules
    /\ lists' = [lists EXCEPT ![vlist[v]] = Append(@, r)]
    /\ op' = Op("add_rule", v, 0)
    /\ rule' = r
    /\ df' = NoTable
    /\ outcome' = NoOutcome
    /\ UNCHANGED vlist

\* v.validate(t)
Validate(v, t) ==
    /\ vlist[v] # 0
    /\ outcome' = validate(RulesOf(v), t)
    /\ op' = Op("validate", v, 0)
    /\ rule' = NoRule
    /\ df' = t
    /\ UNCHANGED <<lists, vlist>>

\* DataQualityValidator.summary(results) on the list validate returned
Summary ==
    /\ op.name = "validate"
    /\ ~outcome.raised
    /\ outcome' = [outcome EXCEPT !.report = summary(outcome.results)]
    /\ op' = Op("summary", op.v, 0)
    /\ UNCHANGED <<lists, vlist, df, rule>>

Next ==
    \/ \E rs \in {<<>>} \cup {<<r>> : r \in ValidatorRules} : NewList(rs)
    \/ \E v \in Validators, arg \in 0..Len(lists) : Construct(v, arg)
    \/ \E v \in Validators, r \in ValidatorRules : AddRule(v, r)
    \/ \E v \in Validators, t \in ValidatorTables : Validate(v, t)
    \/ Summary

Spec == Init /\ [][Next]_vars

(***************************************************************************)
(* rule.evaluate(df) for every rule and table of the input sets.           *)
(***************************************************************************)
EvalOutcome(e) ==
    [raised |-> e.raised, exc |-> e.exc,
     results |-> IF e.raised THEN <<>> ELSE <<e.result>>, evaluated |-> 1,
     report |-> NoReport]

InitEval ==
    /\ lists = <<>>
    /\ vlist = [v \in Validators |-> 0]
    /\ df \in Tables
    /\ rule \in Rules
    /\ op = Op("init", "", 0)
    /\ outcome = NoOutcome

Evaluate ==
    /\ op.name = "init"
    /\ outcome' = EvalOutcome(evaluate(rule, df))
    /\ op' = Op("evaluate", "", 0)
    /\ UNCHANGED <<lists, vlist, df, rule>>

NextEval == Evaluate

SpecEval == InitEval /\ [][NextEval]_vars

(***************************************************************************)
(* Properties.                                                             *)
(***************************************************************************)
Validated == op.name = "validate"
Evaluated == op.name = "evaluate"
TheResult == outcome.results[1]

\* the columns a rule's predicate reads
Referenced(r) == {r.func.columns[k] : k \in 1..Len(r.func.columns)}

\* C1: when validate returns, it returns exactly one RuleResult per
\* registered rule, and the i-th result is the result of the i-th registered
\* rule, also when rules share a name.
C1_ResultOrder ==
    (Validated /\ ~outcome.raised) =>
        /\ Len(outcome.results) = Len(RulesOf(op.v))
        /\ \A i \in 1..Len(RulesOf(op.v)) :
              LET e == evaluate(RulesOf(op.v)[i], df) IN
              ~e.raised /\ outcome.results[i] = e.result

\* two rules of one name, registered in an order that shows in the results
C1_Witness ==
    /\ Validated /\ ~outcome.raised
    /\ Len(RulesOf(op.v)) = 2
    /\ RulesOf(op.v)[1].name = RulesOf(op.v)[2].name
    /\ outcome.results[1].passed /\ ~outcome.results[2].passed

\* C2: every RuleResult evaluate returns has 0 <= failures <= total, total
\* the table's row count and failures the number of table rows whose mask
\* value is false, whatever the length of the mask the predicate returned.
C2_MaskCounts ==
    (Evaluated /\ ~outcome.raised) =>
        LET mask == Call(rule.func, df).obj.values
            falseRows == {i \in 1..nrows(df) : i <= Len(mask) /\ mask[i] = "False"}
        IN /\ 0 <= TheResult.failures
           /\ TheResult.failures <= TheResult.total
           /\ TheResult.total = nrows(df)
           /\ TheResult.failures = Cardinality(falseRows)

\* C3: a returned mask whose length differs from the row count, or that
\* holds a non-boolean element, makes evaluate raise InvalidMaskError
\* carrying the rule's name and the defect found.
C3_InvalidMask ==
    LET call == Call(rule.func, df)
        wrongLength == Len(call.obj.values) # nrows(df)
        nonBoolean == \E i \in 1..Len(call.obj.values) :
                          call.obj.values[i] \notin {"True", "False"}
    IN (Evaluated /\ ~call.raised /\ call.obj.isSeries
            /\ (wrongLength \/ nonBoolean)) =>
          /\ outcome.raised
          /\ outcome.exc.type = "InvalidMaskError"
          /\ outcome.exc.name = rule.name
          /\ outcome.exc.detail \in {"wrong length", "non-boolean element"}

\* the first registered rule whose predicate raises on the table, 0 if none
RECURSIVE FirstRaising(_, _, _)
FirstRaising(rules, t, i) ==
    IF i > Len(rules) THEN 0
    ELSE IF Call(rules[i].func, t).raised THEN i
    ELSE FirstRaising(rules, t, i + 1)

\* C4: when the predicate of the k-th registered rule raises and the rules
\* before it evaluate, validate raises a RuleEvaluationError naming that
\* rule and its cause, returns no partial list and evaluates no later rule.
C4_RuleEvaluationError ==
    LET k == FirstRaising(RulesOf(op.v), df, 1) IN
    (Validated /\ k # 0
        /\ \A i \in 1..(k - 1) : ~evaluate(RulesOf(op.v)[i], df).raised) =>
          /\ outcome.raised
          /\ outcome.results = <<>>
          /\ outcome.evaluated = k
          /\ outcome.exc.type = "RuleEvaluationError"
          /\ outcome.exc.name = RulesOf(op.v)[k].name
          /\ outcome.exc.detail # ""

SummaryColumns == {"name", "passed", "failures", "total"}

\* C5: summary yields one row per RuleResult, in input order, with exactly
\* the columns name, passed, failures, total; for the empty list it yields
\* no row and the same four columns.
C5_SummarySchema ==
    op.name = "summary" =>
        /\ {outcome.report.columns[k] : k \in 1..Len(outcome.report.columns)}
              = SummaryColumns
        /\ Len(outcome.report.columns) = Cardinality(SummaryColumns)
        /\ Len(outcome.report.rows) = Len(outcome.results)
        /\ \A i \in 1..Len(outcome.results) :
              /\ DOMAIN outcome.report.rows[i] = SummaryColumns
              /\ \A c \in SummaryColumns :
                    outcome.report.rows[i][c] = outcome.results[i][c]

\* how many rows of the table hold value x in column c
Occurrences(t, c, x) == Cardinality({j \in 1..nrows(t) : t.rows[j][c] = x})

\* C6: under unique(column) a row passes iff its value occurs exactly once
\* in the column; every row of a duplicated value fails, the first too.
C6_UniqueGlobal ==
    (Evaluated /\ rule.func.kind = "unique" /\ Referenced(rule) \subseteq df.columns) =>
        LET c == rule.func.columns[1]
            Fails(row) == Occurrences(df, c, row[c]) # 1
        IN /\ ~outcome.raised
           /\ TheResult.details = SelectSeq(df.rows, Fails)
           /\ TheResult.failures = Len(SelectSeq(df.rows, Fails))
           /\ TheResult.total = nrows(df)
           /\ TheResult.passed = (SelectSeq(df.rows, Fails) = <<>>)

\* ids 1, 2, 2, 4: both rows of id 2 fail
C6_Witness ==
    /\ Evaluated /\ rule = unique("id") /\ df = IdsExample
    /\ ~outcome.raised
    /\ TheResult.failures = 2 /\ TheResult.total = 4 /\ ~TheResult.passed
    /\ TheResult.details = <<IdsExample.rows[2], IdsExample.rows[3]>>

\* C7: under matches_regex(column, pattern) no error is raised, every row
\* whose value is null fails whatever the pattern, and a non-null row passes
\* iff its value coerced to text matches the pattern.
C7_RegexNullFails ==
    (Evaluated /\ rule.func.kind = "matches_regex"
        /\ Referenced(rule) \subseteq df.columns) =>
        LET c == rule.func.columns[1]
            Fails(row) == \/ row[c].t = "null"
                          \/ ~re_match(rule.func.pattern, PyStr(row[c]))
        IN /\ ~outcome.raised
           /\ TheResult.details = SelectSeq(df.rows, Fails)
           /\ TheResult.failures = Len(SelectSeq(df.rows, Fails))

\* C8: under in_range(column, min, max, inclusive) evaluation does not
\* raise; a numeric value passes iff it lies in [min, max] (inclusive) or
\* (min, max) (exclusive) and a non-numeric value fails.
C8_RangeNonNumeric ==
    (Evaluated /\ rule.func.kind = "in_range"
        /\ Referenced(rule) \subseteq df.columns) =>
        LET c == rule.func.columns[1]
            f == rule.func
            Passes(row) ==
                /\ row[c].t = "int"
                /\ IF f.inclusive
                   THEN f.lo <= row[c].n /\ row[c].n <= f.hi
                   ELSE f.lo < row[c].n /\ row[c].n < f.hi
            Fails(row) == ~Passes(row)
        IN /\ ~outcome.raised
           /\ TheResult.details = SelectSeq(df.rows, Fails)
           /\ TheResult.failures = Len(SelectSeq(df.rows, Fails))

ZeroRowCase ==
    /\ Validated
    /\ nrows(df) = 0
    /\ \A i \in 1..Len(RulesOf(op.v)) : Referenced(RulesOf(op.v)[i]) \subseteq df.columns

AllTrivial ==
    /\ ~outcome.raised
    /\ Len(outcome.results) = Len(RulesOf(op.v))
    /\ \A i \in 1..Len(outcome.results) :
          /\ outcome.results[i].total = 0
          /\ outcome.results[i].failures = 0
          /\ outcome.results[i].passed

EmptyRuleSetCase == Validated /\ RulesOf(op.v) = <<>>

\* C9 as stated: any rule set validated against a zero-row table that has
\* the referenced columns succeeds with total = 0, failures = 0 and passed
\* in every result; the empty rule set returns the empty list on any table.
C9_ZeroRowsAnyRule ==
    /\ ZeroRowCase => AllTrivial
    /\ EmptyRuleSetCase => (~outcome.raised /\ outcome.results = <<>>)

\* a rule made by a built-in factory, or one whose predicate returns an
\* empty boolean Series
EmptyMaskRule(r) ==
    r.func.kind = "const" => r.func.ret = BoolSeries(<<>>)

\* C9 as amended: the same, for rule sets whose predicates return an empty
\* boolean mask on the zero-row table, as every built-in factory rule does.
C9_ZeroRowsEmptyMasks ==
    /\ (ZeroRowCase /\ \A i \in 1..Len(RulesOf(op.v)) : EmptyMaskRule(RulesOf(op.v)[i]))
          => AllTrivial
    /\ EmptyRuleSetCase => (~outcome.raised /\ outcome.results = <<>>)

\* two built-in rules validated against a zero-row table with their columns
C9_Witness ==
    /\ ZeroRowCase
    /\ Len(RulesOf(op.v)) = 2
    /\ RulesOf(op.v)[1].func.kind = "not_null"
    /\ RulesOf(op.v)[2].func.kind = "matches_regex"
    /\ AllTrivial

\* C10: the rule sequence of a constructed validator changes only by
\* add_rule on that validator, which appends the rule at the end; no other
\* call (validate, add_rule on another validator, a constructor) changes it.
C10_AppendOnly ==
    [][\A v \in Validators :
          vlist[v] # 0 =>
             /\ vlist'[v] = vlist[v]
             /\ \/ lists'[vlist'[v]] = lists[vlist[v]]
                \/ /\ op'.name = "add_rule" /\ op'.v = v
                   /\ lists'[vlist'[v]] = Append(lists[vlist[v]], rule')]_vars

====
